---- MODULE Spec2Model ----
(***************************************************************************)
(* A model of backend/server.py of the video downloader: the two handlers *)
(* POST /api/video/info and POST /api/video/download, the thread pool     *)
(* they hand the blocking yt-dlp calls to, the file route and the         *)
(* shutdown hook.                                                          *)
(*                                                                         *)
(* Strings the code takes apart (resolution labels) are sequences of      *)
(* one-character strings, so that str.replace and int() are computed the  *)
(* way Python computes them.  Messages are sequences of fragments, so     *)
(* that "the detail contains the message" is a membership test.           *)
(***************************************************************************)
EXTENDS Integers, Sequences, FiniteSets, TLC

\* ------------------------------------------------------------------ bounds
\* Requests the model lets arrive.
MaxReq == 4
\* Longest raw format list drawn exhaustively for the normalizer.
MaxRaw == 2

\* ThreadPoolExecutor(max_workers=3)
max_workers == 3
\* formats[:10]
TopN == 10

\* ------------------------------------------------------------ text helpers
Digits == <<"0", "1", "2", "3", "4", "5", "6", "7", "8", "9">>

IsDigit(c) == \E i \in 1..10 : Digits[i] = c

DigitVal(c) == (CHOOSE i \in 1..10 : Digits[i] = c) - 1

\* str(n) of a non-negative int, as f"{height}p" formats it.
RECURSIVE IntToStr(_)
IntToStr(n) == IF n < 10 THEN <<Digits[n + 1]>>
               ELSE IntToStr(n \div 10) \o <<Digits[(n % 10) + 1]>>

StartsWith(s, old) == /\ Len(old) <= Len(s)
                      /\ SubSeq(s, 1, Len(old)) = old

\* s.replace(old, new): left to right, non-overlapping, old non-empty.
RECURSIVE StrReplace(_, _, _)
StrReplace(s, old, new) ==
    IF s = <<>> THEN <<>>
    ELSE IF StartsWith(s, old)
         THEN new \o StrReplace(SubSeq(s, Len(old) + 1, Len(s)), old, new)
         ELSE <<Head(s)>> \o StrReplace(Tail(s), old, new)

RECURSIVE DigitsValue(_, _)
DigitsValue(s, acc) == IF s = <<>> THEN acc
                       ELSE DigitsValue(Tail(s), 10 * acc + DigitVal(Head(s)))

\* int(s) on text without blanks, signs or underscores (the labels of the
\* model hold none): the value of a non-empty run of digits, ValueError on
\* anything else.
PyInt(s) == IF s # <<>> /\ \A i \in 1..Len(s) : IsDigit(s[i])
            THEN [ok |-> TRUE, val |-> DigitsValue(s, 0)]
            ELSE [ok |-> FALSE, val |-> 0]

\* ------------------------------------------------------- format descriptors
P720 == <<"7", "2", "0", "p">>
P480 == <<"4", "8", "0", "p">>
WxH == <<"1", "9", "2", "0", "x", "1", "0", "8", "0">>
Unknown == <<"u", "n", "k", "n", "o", "w", "n">>
NoneText == <<"N", "o", "n", "e">>

\* fmt.get('height', 'unknown') has three outcomes: the key is missing, the
\* key holds None, the key holds an int.
HeightAbsent == [kind |-> "absent", val |-> 0]
HeightNone == [kind |-> "none", val |-> 0]
HeightInt(n) == [kind |-> "int", val |-> n]

\* What a descriptor can say about its resolution: an explicit string, or a
\* missing/empty string (<<>>) with one of the three heights.
ResChoices == { [resolution |-> P720, height |-> HeightInt(720)],
                [resolution |-> P480, height |-> HeightInt(480)],
                [resolution |-> WxH, height |-> HeightInt(1080)],
                [resolution |-> <<>>, height |-> HeightInt(720)],
                [resolution |-> <<>>, height |-> HeightAbsent],
                [resolution |-> <<>>, height |-> HeightNone] }

Descriptor(i, rc, v, a) ==
    [format_id |-> i, ext |-> "mp4", resolution |-> rc.resolution,
     height |-> rc.height, vcodec |-> v, acodec |-> a]

\* The raw lists of length n: format_id is the position in the list.
RawOfLen(n) ==
    { [i \in 1..n |-> Descriptor(i, f[i][1], f[i][2], f[i][3])] :
        f \in [1..n -> ResChoices \X {"none", "avc1"} \X {"none", "mp4a"}] }

\* Eleven video renditions of distinct heights 100..1100, given worst first.
LongRaw == [i \in 1..(TopN + 1) |->
              Descriptor(i, [resolution |-> <<>>, height |-> HeightInt(100 * i)],
                         "avc1", "mp4a")]

\* The scenario of the specification: 720p video-only, 720p muxed, 480p muxed.
ScenarioRaw == << Descriptor(1, [resolution |-> P720, height |-> HeightInt(720)], "avc1", "none"),
                  Descriptor(2, [resolution |-> P720, height |-> HeightInt(720)], "avc1", "mp4a"),
                  Descriptor(3, [resolution |-> P480, height |-> HeightInt(480)], "avc1", "mp4a") >>

RawInputs == UNION { RawOfLen(n) : n \in 0..MaxRaw } \cup {LongRaw, ScenarioRaw}

\* --------------------------------------------------- get_video_info, 130-158
HasVideo(fmt) == fmt.vcodec # "none"

HasAudio(fmt) == fmt.acodec # "none"

HeightText(h) == CASE h.kind = "absent" -> Unknown
                   [] h.kind = "none" -> NoneText
                   [] OTHER -> IntToStr(h.val)

\* fmt.get('resolution') or f"{fmt.get('height', 'unknown')}p"
Label(fmt) == IF fmt.resolution # <<>> THEN fmt.resolution
              ELSE HeightText(fmt.height) \o <<"p">>

VideoFormat(fmt) == [format_id |-> fmt.format_id, ext |-> fmt.ext,
                     resolution |-> Label(fmt)]

\* The loop over info['formats']: formats and seen_resolutions after the
\* descriptors from position i on have been visited.
RECURSIVE CollectFrom(_, _, _, _)
CollectFrom(raw, i, formats, seen) ==
    IF i > Len(raw) THEN formats
    ELSE LET fmt == raw[i] IN
         IF HasVideo(fmt) /\ (Label(fmt) \notin seen \/ HasAudio(fmt))
         THEN CollectFrom(raw, i + 1, Append(formats, VideoFormat(fmt)),
                          seen \cup {Label(fmt)})
         ELSE CollectFrom(raw, i + 1, formats, seen)

CollectFormats(raw) == CollectFrom(raw, 1, <<>>, {})

\* The sort key: int(x.resolution.replace('p', '').replace('unknown', '0')).
\* x.resolution is never empty, so the "else 0" branch is never taken.
SortKey(x) ==
    IF x.resolution # <<>>
    THEN PyInt(StrReplace(StrReplace(x.resolution, <<"p">>, <<>>), Unknown, <<"0">>))
    ELSE [ok |-> TRUE, val |-> 0]

\* Insert x behind every entry whose key is at least x's: with the entries
\* inserted in list order this is list.sort(key=..., reverse=True), which
\* keeps equal keys in their original order.
RECURSIVE InsertDesc(_, _)
InsertDesc(sorted, x) ==
    IF sorted = <<>> THEN <<x>>
    ELSE IF SortKey(Head(sorted)).val >= SortKey(x).val
         THEN <<Head(sorted)>> \o InsertDesc(Tail(sorted), x)
         ELSE <<x>> \o sorted

RECURSIVE SortDesc(_, _)
SortDesc(formats, sorted) ==
    IF formats = <<>> THEN sorted
    ELSE SortDesc(Tail(formats), InsertDesc(sorted, Head(formats)))

Truncate(formats) == SubSeq(formats, 1, IF Len(formats) < TopN THEN Len(formats) ELSE TopN)

\* The entries whose key raises: list.sort computes every key before it
\* compares any, so one such entry makes the whole sort raise.
BadKeys(formats) == { i \in 1..Len(formats) : ~SortKey(formats[i]).ok }

\* The body of the handler after the await: the formats of the response, or
\* the ValueError of the sort key.
Normalize(raw) ==
    LET formats == CollectFormats(raw) IN
    IF BadKeys(formats) # {}
    THEN [ok |-> FALSE, formats |-> <<>>,
          err |-> <<"invalid literal for int() with base 10">>]
    ELSE [ok |-> TRUE, formats |-> Truncate(SortDesc(formats, <<>>)), err |-> <<>>]

\* ------------------------------------------------------------------ state
VARIABLES
    nextId,     \* the requests that have arrived are 1..nextId-1, in arrival order
    kind,       \* kind[r]: "none" | "info" | "download"
    pc,         \* pc[r]: "unborn" | "awaiting" (suspended at the await) | "answered"
    queue,      \* the executor's work queue, oldest submission first
    running,    \* the work items a worker thread is executing
    fut,        \* fut[r]: the future of r's submission
    resp,       \* resp[r]: the HTTP response of r
    calls,      \* calls[r]: extractor invocations made for r
    thread,     \* thread[r]: where r's extractor call ran: "" | "worker" | "loop"
    raised,     \* raised[r]: the message yt-dlp failed with for r, "" if none
    files,      \* the names of the files in DOWNLOADS_DIR
    fetch,      \* fetch[r]: status of GET /api/video/file/<filename of resp[r]>
    phase,      \* the executor: "up" | "draining" (shutdown(wait=True) running) | "down"
    atShutdown  \* the submissions queued or running when shutdown began

vars == <<nextId, kind, pc, queue, running, fut, resp, calls, thread, raised,
          files, fetch, phase, atShutdown>>

Req == 1..MaxReq

\* What yt-dlp can report when it fails, and the extensions it can choose.
ErrMsgs == {"Unsupported URL"}
Exts == {"mp4", "webm"}

Pending == [st |-> "pending", info |-> <<>>, path |-> <<>>, err |-> <<>>]
NoResp == [status |-> 0, formats |-> <<>>, filename |-> <<>>, detail |-> <<>>]

\* HTTPException(status_code=400, detail=str(e))
Http400(e) == [status |-> 400, formats |-> <<>>, filename |-> <<>>, detail |-> e]

\* DOWNLOADS_DIR / f"{download_id}.%(ext)s": the name part of the template.
OutputTemplate(id) == <<id, "%(ext)s">>

\* The file yt-dlp writes for the template: the extension substituted.
WrittenFile(id, ext) == <<id, ext>>

SeqRange(s) == { s[i] : i \in 1..Len(s) }

Init ==
    /\ nextId = 1
    /\ kind = [r \in Req |-> "none"]
    /\ pc = [r \in Req |-> "unborn"]
    /\ queue = <<>>
    /\ running = {}
    /\ fut = [r \in Req |-> Pending]
    /\ resp = [r \in Req |-> NoResp]
    /\ calls = [r \in Req |-> 0]
    /\ thread = [r \in Req |-> ""]
    /\ raised = [r \in Req |-> ""]
    /\ files = {}
    /\ fetch = [r \in Req |-> 0]
    /\ phase = "up"
    /\ atShutdown = {}

\* ------------------------------------------------------------ the executor
\* loop.run_in_executor(executor, fn, ...): executor.submit appends the work
\* item to the queue; after shutdown it raises RuntimeError instead, which
\* the handler's except clause turns into a 400.
RunInExecutor(r, k) ==
    /\ kind' = [kind EXCEPT ![r] = k]
    /\ nextId' = nextId + 1
    /\ IF phase = "up"
       THEN /\ queue' = Append(queue, r)
            /\ pc' = [pc EXCEPT ![r] = "awaiting"]
            /\ resp' = resp
       ELSE /\ queue' = queue
            /\ pc' = [pc EXCEPT ![r] = "answered"]
            /\ resp' = [resp EXCEPT ![r] =
                          Http400(<<"cannot schedule new futures after shutdown">>)]
    /\ UNCHANGED <<fut, calls, thread, raised>>

\* A pool that starts a thread for every work item.
WorkerStartUnbounded ==
    /\ queue # <<>>
    /\ running' = running \cup {Head(queue)}
    /\ queue' = Tail(queue)
    /\ calls' = [calls EXCEPT ![Head(queue)] = @ + 1]
    /\ thread' = [thread EXCEPT ![Head(queue)] = "worker"]
    /\ UNCHANGED <<nextId, kind, pc, fut, resp, raised, files, fetch, phase, atShutdown>>

\* A pool whose workers take the newest work item.
WorkerStartNewest ==
    /\ queue # <<>>
    /\ Cardinality(running) < max_workers
    /\ running' = running \cup {queue[Len(queue)]}
    /\ queue' = SubSeq(queue, 1, Len(queue) - 1)
    /\ calls' = [calls EXCEPT ![queue[Len(queue)]] = @ + 1]
    /\ thread' = [thread EXCEPT ![queue[Len(queue)]] = "worker"]
    /\ UNCHANGED <<nextId, kind, pc, fut, resp, raised, files, fetch, phase, atShutdown>>

\* A worker thread takes the oldest work item; at most max_workers threads.
WorkerStart ==
    /\ queue # <<>>
    /\ Cardinality(running) < max_workers
    /\ running' = running \cup {Head(queue)}
    /\ queue' = Tail(queue)
    /\ calls' = [calls EXCEPT ![Head(queue)] = @ + 1]
    /\ thread' = [thread EXCEPT ![Head(queue)] = "worker"]
    /\ UNCHANGED <<nextId, kind, pc, fut, resp, raised, files, fetch, phase, atShutdown>>

\* A pool in which a raising work item takes the queued ones down with it.
ResolveCancelling(r, f) ==
    /\ running' = running \ {r}
    /\ IF f.st = "exc"
       THEN /\ fut' = [q \in Req |-> IF q = r \/ q \in SeqRange(queue) THEN f ELSE fut[q]]
            /\ queue' = <<>>
       ELSE /\ fut' = [fut EXCEPT ![r] = f]
            /\ queue' = queue

\* The work item returns or raises: its future is resolved, the worker goes
\* back to the queue, and no other work item is touched.
Resolve(r, f) ==
    /\ fut' = [fut EXCEPT ![r] = f]
    /\ running' = running \ {r}
    /\ queue' = queue

\* ----------------------------------------------------- get_video_info_sync
GetVideoInfoSync(r, raws) ==
    /\ r \in running
    /\ kind[r] = "info"
    /\ \/ /\ \E raw \in raws :
               Resolve(r, [st |-> "ok", info |-> raw, path |-> <<>>, err |-> <<>>])
          /\ raised' = raised
       \/ \E e \in ErrMsgs :
            /\ Resolve(r, [st |-> "exc", info |-> <<>>, path |-> <<>>,
                           err |-> <<"Failed to extract video info: ", e>>])
            /\ raised' = [raised EXCEPT ![r] = e]
    /\ UNCHANGED <<nextId, kind, pc, resp, calls, thread, files, fetch, phase,
                   atShutdown>>

\* ------------------------------------------------------ download_video_sync
\* On success yt-dlp has written the file with the extension it chose, and
\* the function returns output_path, the template it was given.
DownloadVideoSync(r, exts) ==
    /\ r \in running
    /\ kind[r] = "download"
    /\ \/ \E ext \in exts :
            /\ files' = files \cup {WrittenFile(r, ext)}
            /\ Resolve(r, [st |-> "ok", info |-> <<>>, path |-> OutputTemplate(r),
                           err |-> <<>>])
            /\ raised' = raised
       \/ \E e \in ErrMsgs :
            /\ files' = files
            /\ Resolve(r, [st |-> "exc", info |-> <<>>, path |-> <<>>,
                           err |-> <<"Failed to download video: ", e>>])
            /\ raised' = [raised EXCEPT ![r] = e]
    /\ UNCHANGED <<nextId, kind, pc, resp, calls, thread, fetch, phase, atShutdown>>

\* ----------------------------------------------------------- get_video_info
\* Up to the await: the extractor call is handed to the executor.  While
\* shutdown(wait=True) blocks the event loop no handler runs.
GetVideoInfoSubmit ==
    /\ nextId <= MaxReq
    /\ phase # "draining"
    /\ RunInExecutor(nextId, "info")
    /\ UNCHANGED <<running, files, fetch, phase, atShutdown>>

\* A handler that answers a failed extraction with an empty success.
InfoResponseMasking(f) ==
    IF f.st = "exc"
    THEN [status |-> 200, formats |-> <<>>, filename |-> <<>>, detail |-> <<>>]
    ELSE LET n == Normalize(f.info) IN
         IF n.ok
         THEN [status |-> 200, formats |-> n.formats, filename |-> <<>>, detail |-> <<>>]
         ELSE Http400(n.err)

\* The response of the handler once the future is resolved.
InfoResponse(f) ==
    IF f.st = "exc" THEN Http400(f.err)
    ELSE LET n == Normalize(f.info) IN
         IF n.ok
         THEN [status |-> 200, formats |-> n.formats, filename |-> <<>>, detail |-> <<>>]
         ELSE Http400(n.err)

\* After the await.
GetVideoInfoResume(r) ==
    /\ pc[r] = "awaiting"
    /\ kind[r] = "info"
    /\ fut[r].st # "pending"
    /\ phase # "draining"
    /\ resp' = [resp EXCEPT ![r] = InfoResponse(fut[r])]
    /\ pc' = [pc EXCEPT ![r] = "answered"]
    /\ UNCHANGED <<nextId, kind, queue, running, fut, calls, thread, raised, files,
                   fetch, phase, atShutdown>>

\* ----------------------------------------------------------- download_video
\* download_id is a fresh uuid4: the request's own number here.
DownloadVideoSubmit ==
    /\ nextId <= MaxReq
    /\ phase # "draining"
    /\ RunInExecutor(nextId, "download")
    /\ UNCHANGED <<running, files, fetch, phase, atShutdown>>

\* Path(downloaded_file).name if downloaded_file else f"{download_id}.mp4";
\* downloaded_file is the non-empty template, so the else is never taken.
DownloadResponse(r, f) ==
    IF f.st = "exc" THEN Http400(f.err)
    ELSE [status |-> 200,
          formats |-> <<>>,
          filename |-> IF f.path # <<>> THEN f.path ELSE <<r, "mp4">>,
          detail |-> <<>>]

DownloadVideoResume(r) ==
    /\ pc[r] = "awaiting"
    /\ kind[r] = "download"
    /\ fut[r].st # "pending"
    /\ phase # "draining"
    /\ resp' = [resp EXCEPT ![r] = DownloadResponse(r, fut[r])]
    /\ pc' = [pc EXCEPT ![r] = "answered"]
    /\ UNCHANGED <<nextId, kind, queue, running, fut, calls, thread, raised, files,
                   fetch, phase, atShutdown>>

\* ----------------------------------------------------------- get_video_file
\* The client asks for the filename a completed download gave it.
GetVideoFile(r) ==
    /\ pc[r] = "answered"
    /\ kind[r] = "download"
    /\ resp[r].status = 200
    /\ fetch[r] = 0
    /\ phase # "draining"
    /\ fetch' = [fetch EXCEPT ![r] = IF resp[r].filename \in files THEN 200 ELSE 404]
    /\ UNCHANGED <<nextId, kind, pc, queue, running, fut, resp, calls, thread,
                   raised, files, phase, atShutdown>>

\* ------------------------------------------------------- shutdown_db_client
\* executor.shutdown(wait=True) is called on the event loop: from here no
\* handler runs until it returns, and the executor takes no submission.
ShutdownBegin ==
    /\ phase = "up"
    /\ phase' = "draining"
    /\ atShutdown' = running \cup SeqRange(queue)
    /\ UNCHANGED <<nextId, kind, pc, queue, running, fut, resp, calls, thread,
                   raised, files, fetch>>

\* shutdown(wait=False): the hook returns with work still queued or running.
ShutdownEndNoWait ==
    /\ phase = "draining"
    /\ phase' = "down"
    /\ UNCHANGED <<nextId, kind, pc, queue, running, fut, resp, calls, thread,
                   raised, files, fetch, atShutdown>>

\* shutdown(wait=True) returns when the workers have emptied the queue and
\* exited.
ShutdownEnd ==
    /\ phase = "draining"
    /\ queue = <<>>
    /\ running = {}
    /\ phase' = "down"
    /\ UNCHANGED <<nextId, kind, pc, queue, running, fut, resp, calls, thread,
                   raised, files, fetch, atShutdown>>

\* ---------------------------------------------------------- specifications
\* The service with its pool and its shutdown hook; the extractor answers an
\* info call with the scenario list and names a download's file ".mp4".
Next ==
    \/ GetVideoInfoSubmit
    \/ DownloadVideoSubmit
    \/ WorkerStart
    \/ \E r \in Req : GetVideoInfoSync(r, {ScenarioRaw})
    \/ \E r \in Req : DownloadVideoSync(r, {"mp4"})
    \/ \E r \in Req : GetVideoInfoResume(r)
    \/ \E r \in Req : DownloadVideoResume(r)
    \/ ShutdownBegin
    \/ ShutdownEnd

Spec == Init /\ [][Next]_vars

\* The service while it is up.
PoolNext ==
    \/ GetVideoInfoSubmit
    \/ DownloadVideoSubmit
    \/ WorkerStart
    \/ \E r \in Req : GetVideoInfoSync(r, {ScenarioRaw})
    \/ \E r \in Req : DownloadVideoSync(r, {"mp4"})
    \/ \E r \in Req : GetVideoInfoResume(r)
    \/ \E r \in Req : DownloadVideoResume(r)

\* The service while it is up, with the scheduling the runtime gives: a free
\* worker thread takes a queued item, and a running extractor call terminates.
FairSpec ==
    /\ Init
    /\ [][PoolNext]_vars
    /\ WF_vars(WorkerStart)
    /\ \A r \in Req : WF_vars(GetVideoInfoSync(r, {ScenarioRaw}) \/ DownloadVideoSync(r, {"mp4"}))

\* One metadata request, over every raw list of the bounded input space.
NormNext ==
    \/ nextId <= 1 /\ GetVideoInfoSubmit
    \/ WorkerStart
    \/ \E r \in Req : GetVideoInfoSync(r, RawInputs)
    \/ \E r \in Req : GetVideoInfoResume(r)

NormSpec == Init /\ [][NormNext]_vars

\* Downloads and the file route, over every extension of the model.
FileNext ==
    \/ DownloadVideoSubmit
    \/ WorkerStart
    \/ \E r \in Req : DownloadVideoSync(r, Exts)
    \/ \E r \in Req : DownloadVideoResume(r)
    \/ \E r \in Req : GetVideoFile(r)

FileSpec == Init /\ [][FileNext]_vars

\* ------------------------------------------------- the stated normalizer
\* The rank key as stated: N for "<N>p", H for "<W>x<H>", 0 otherwise.
AllDigits(t) == t # <<>> /\ \A i \in 1..Len(t) : IsDigit(t[i])

StatedRank(label) ==
    IF Len(label) >= 2 /\ label[Len(label)] = "p" /\ AllDigits(SubSeq(label, 1, Len(label) - 1))
    THEN DigitsValue(SubSeq(label, 1, Len(label) - 1), 0)
    ELSE IF \E k \in 2..(Len(label) - 1) :
                /\ label[k] = "x"
                /\ AllDigits(SubSeq(label, 1, k - 1))
                /\ AllDigits(SubSeq(label, k + 1, Len(label)))
         THEN LET k == CHOOSE k \in 2..(Len(label) - 1) : label[k] = "x"
              IN DigitsValue(SubSeq(label, k + 1, Len(label)), 0)
         ELSE 0

\* The deduplication as stated: the first descriptor of a label is kept, and
\* is replaced in place by a later one of the label that carries audio when
\* the kept one does not.
RECURSIVE StatedDedupFrom(_, _, _)
StatedDedupFrom(raw, i, kept) ==
    IF i > Len(raw) THEN kept
    ELSE LET fmt == raw[i]
             same == { j \in 1..Len(kept) : Label(kept[j]) = Label(fmt) }
         IN IF ~HasVideo(fmt) THEN StatedDedupFrom(raw, i + 1, kept)
            ELSE IF same = {} THEN StatedDedupFrom(raw, i + 1, Append(kept, fmt))
            ELSE LET j == CHOOSE j \in same : TRUE IN
                 IF HasAudio(fmt) /\ ~HasAudio(kept[j])
                 THEN StatedDedupFrom(raw, i + 1, [kept EXCEPT ![j] = fmt])
                 ELSE StatedDedupFrom(raw, i + 1, kept)

StatedDedup(raw) == LET kept == StatedDedupFrom(raw, 1, <<>>)
                    IN [j \in 1..Len(kept) |-> VideoFormat(kept[j])]

RECURSIVE StatedInsert(_, _)
StatedInsert(sorted, e) ==
    IF sorted = <<>> THEN <<e>>
    ELSE IF StatedRank(Head(sorted).resolution) >= StatedRank(e.resolution)
         THEN <<Head(sorted)>> \o StatedInsert(Tail(sorted), e)
         ELSE <<e>> \o sorted

RECURSIVE StatedSort(_, _)
StatedSort(formats, sorted) ==
    IF formats = <<>> THEN sorted
    ELSE StatedSort(Tail(formats), StatedInsert(sorted, Head(formats)))

StatedFormats(raw) ==
    LET s == StatedSort(StatedDedup(raw), <<>>)
    IN SubSeq(s, 1, IF Len(s) < TopN THEN Len(s) ELSE TopN)

\* The metadata requests that were answered with a formats list.
InfoOk(r) == kind[r] = "info" /\ pc[r] = "answered" /\ resp[r].status = 200

\* The submissions the executor took.
Accepted(r) == thread[r] # "" \/ r \in SeqRange(queue)

\* The requests the executor refused.
Rejected(r) == pc[r] = "answered" /\ thread[r] = ""

\* ------------------------------------------------------------------ claims
\* C1: the formats list of a metadata response holds no two entries with the
\* same resolution label.
NoDuplicateLabels ==
    \A r \in Req : InfoOk(r) =>
        \A i, j \in 1..Len(resp[r].formats) :
            i # j => resp[r].formats[i].resolution # resp[r].formats[j].resolution

\* C2: a download answered "completed" names the file the extractor wrote for
\* it, and fetching that name is never answered 404.
CompletedNamesWrittenFile ==
    \A r \in Req : (kind[r] = "download" /\ pc[r] = "answered" /\ resp[r].status = 200) =>
        /\ \E ext \in Exts : resp[r].filename = WrittenFile(r, ext)
        /\ resp[r].filename \in files
        /\ fetch[r] # 404

\* C3: at no time do more than max_workers extractor calls execute, and every
\* extractor call that was made ran on a worker thread of the pool.
BoundedOnPool ==
    /\ Cardinality(running) <= max_workers
    /\ \A r \in Req : calls[r] > 0 => thread[r] = "worker"

\* The pool is full and a submission waits.
PoolFullWitness == Cardinality(running) = max_workers /\ queue # <<>>

\* C4: a request whose extractor call failed is answered 400 with the
\* extractor's message in the detail, never with a success, and its extractor
\* was invoked exactly once; no request has its extractor invoked twice.
FailureIs400 ==
    \A r \in Req :
        /\ calls[r] <= 1
        /\ (raised[r] # "" /\ pc[r] = "answered") =>
              /\ resp[r].status = 400
              /\ raised[r] \in SeqRange(resp[r].detail)
              /\ calls[r] = 1

\* A metadata request and a download have both failed and been answered.
BothFailedWitness ==
    \E r1, r2 \in Req :
        /\ kind[r1] = "info" /\ kind[r2] = "download"
        /\ raised[r1] # "" /\ raised[r2] # ""
        /\ pc[r1] = "answered" /\ pc[r2] = "answered"

\* C5: the formats list of a metadata response is the first min(10, n) entries
\* of the deduplicated list, stably sorted by non-increasing stated rank key.
FormatsAreStatedRanking ==
    \A r \in Req : InfoOk(r) => resp[r].formats = StatedFormats(fut[r].info)

\* C6: for each resolution label among the video descriptors, the response
\* holds exactly one entry of that label: the first descriptor of the label,
\* or the later audio-carrying one that replaces a first one without audio.
OneKeptPerLabel ==
    \A r \in Req : (InfoOk(r) /\ Len(StatedDedup(fut[r].info)) <= TopN) =>
        \A e \in SeqRange(StatedDedup(fut[r].info)) :
            { i \in 1..Len(resp[r].formats) :
                resp[r].formats[i].resolution = e.resolution }
            = { i \in 1..Len(resp[r].formats) : resp[r].formats[i] = e }
            /\ Cardinality({ i \in 1..Len(resp[r].formats) : resp[r].formats[i] = e }) = 1

\* C7: a metadata request whose extractor call succeeded is never answered
\* 400: deriving the rank key of a label never raises.
NormalizeNeverFails ==
    \A r \in Req : (kind[r] = "info" /\ pc[r] = "answered" /\ fut[r].st = "ok") =>
        resp[r].status = 200

\* C8: a failing extractor call touches no other submission: a queued one
\* stays queued until a worker takes it, a future is resolved by its own work
\* item finishing and by nothing else, the failed item gives its worker back,
\* and a request is answered 400 with its own extractor's message when its
\* own call failed and with no extractor message when it did not.
IsolationState ==
    \A r \in Req :
        /\ fut[r].st # "pending" => r \notin running
        /\ (pc[r] = "answered" /\ Accepted(r)) =>
              /\ fut[r].st # "pending"
              /\ IF raised[r] # ""
                 THEN resp[r].status = 400 /\ raised[r] \in SeqRange(resp[r].detail)
                 ELSE \A e \in ErrMsgs : e \notin SeqRange(resp[r].detail)

IsolationStep ==
    \A r \in Req :
        /\ r \in SeqRange(queue) => r \in SeqRange(queue') \cup running'
        /\ fut'[r] # fut[r] => (r \in running /\ r \notin running' /\ fut[r].st = "pending")
        /\ (r \in running /\ r \notin running') => fut'[r].st # "pending"

FailureIsolation == []IsolationState /\ [][IsolationStep]_vars

\* A call failed, a later request was answered with its own success, and
\* more calls ran than the pool has workers.
IsolationWitness ==
    \E r1, r2 \in Req :
        /\ r1 < r2
        /\ raised[r1] # "" /\ pc[r1] = "answered"
        /\ pc[r2] = "answered" /\ resp[r2].status = 200
        /\ Cardinality({ r \in Req : thread[r] = "worker" }) > max_workers

\* C9: a call never starts while a call submitted before it is still queued,
\* and every queued call eventually starts.
FifoStep ==
    \A r \in Req : (r \in running' /\ r \notin running) =>
        \A q \in SeqRange(queue') : q > r

QueueIsFifo ==
    /\ [][FifoStep]_vars
    /\ \A r \in Req : (r \in SeqRange(queue)) ~> (calls[r] > 0)

\* A call beyond the pool's capacity has started and the pool is full again.
ExcessStartedWitness ==
    \E r \in Req : r > max_workers /\ r \in running /\ Cardinality(running) = max_workers

\* C10: when shutdown has finished, every call that was queued or running
\* when it began has run to completion; once shutdown has begun the executor
\* takes no submission, and once it has finished no extractor call starts.
DrainedState ==
    phase = "down" =>
        /\ queue = <<>>
        /\ running = {}
        /\ \A r \in atShutdown : fut[r].st # "pending" /\ calls[r] = 1

ClosedStep ==
    /\ phase # "up" => SeqRange(queue') \subseteq SeqRange(queue)
    /\ phase = "down" => calls' = calls

ShutdownDrains == []DrainedState /\ [][ClosedStep]_vars

\* Shutdown finished after it began with work pending, and a later request
\* was refused.
DrainedWitness ==
    /\ phase = "down"
    /\ atShutdown # {}
    /\ \E r \in Req : Rejected(r)

====
